---- MODULE Spec2Model ----
(***************************************************************************)
(* Model of the osdctl connection & privilege-elevation broker:            *)
(*   - testHiveLoginOptions.run (cmd/hive/loginhivetests.go): the linear   *)
(*     login sequence, one action per step, with every step able to fail;  *)
(*   - GenerateQuery (pkg/utils, known through TestGenerateQuery);         *)
(*   - GetOcmConfigFromFilePath (pkg/utils, known through its test).       *)
(* Three specifications share the module: Spec (run), SpecQuery            *)
(* (identifier classification), SpecFile (config file loading).            *)
(***************************************************************************)
EXTENDS Integers, Sequences, FiniteSets, TLC

VARIABLES
    pc,                 \* position of run(): the step about to execute
    flagURL,            \* value of the --hive-ocm-url flag (never changes)
    viperURL,           \* viper key hive_ocm_url (never changes)
    hiveOcmURL,         \* o.hiveOcmURL
    hiveOcmConfigPath,  \* o.hiveOcmConfigPath
    hiveFile,           \* the file found at o.hiveOcmConfigPath
    matches,            \* how many clusters of OCM match o.clusterID
    reason,             \* o.reason
    hiveOCMCfg,         \* *ocmConfig.Config: <<>> is nil, <<cfg>> a config
    ocmClient,          \* connection id, "" is nil
    hiveOCM,            \* connection id, "" is nil
    conns,              \* every sdk.Connection run() can open
    deferred,           \* connections registered with defer ...Close()
    cluster,            \* internal ID of the target cluster, "" before lookup
    hiveCluster,        \* internal ID of the hive cluster, "" before lookup
    test,               \* index into Tests of the client variant in progress
    readIdx,            \* number of validation reads done on that client
    clients,            \* clients built so far, in build order
    reads,              \* validation reads issued so far, in order
    passed,             \* indexes of Tests whose "- PASS" line was printed
    result,             \* "running" | "nil" | "error" | "panic"
    failedAt,           \* the step whose failure ended run(), "" if none
    retErr,             \* the error run() returned, NoErr for nil
    steps,              \* the calls run() has made so far, in order
    cfgBuilt,           \* what *hiveOCMCfg held when its loader returned it
    ident,              \* SpecQuery: cluster identifier, a sequence of chars
    edits,              \* SpecQuery: edits made to the identifier so far
    query,              \* SpecQuery: last result of GenerateQuery, or <<>>
    file,               \* SpecFile: the file at the path given
    loaded,             \* SpecFile: last result of GetOcmConfigFromFilePath
    built,              \* SpecFile: last call of GetOCMSdkConnBuilderFromConfig
    viperKey,           \* SpecConfig: the value of the key in each source
    shown,              \* SpecConfig: last result of getConfigValue, or <<>>
    configFileUsed,     \* SpecConfig: whether viper.ConfigFileUsed() is not ""
    setDone,            \* SpecConfig: last call of setConfigValue, or <<>>
    activityIn,         \* SpecActivity: the userActivityOptions of the call
    activityOut,        \* SpecActivity: result of QueryUserActivity, or <<>>
    reviewIn,           \* SpecReview: arguments and environment of the call
    reviewRun           \* SpecReview: where ReviewPullRequest is and what it did

inputs == <<flagURL, viperURL, hiveOcmConfigPath, hiveFile, matches>>
runVars == <<pc, inputs, hiveOcmURL, reason, hiveOCMCfg, ocmClient, hiveOCM,
             conns, deferred, cluster, hiveCluster, test, readIdx, clients, reads, passed, result,
             failedAt, retErr, steps, cfgBuilt>>
queryVars == <<ident, edits, query>>
fileVars == <<file, loaded, built>>
configVars == <<viperKey, shown, configFileUsed, setDone>>
activityVars == <<activityIn, activityOut>>
reviewVars == <<reviewIn, reviewRun>>
\* The variables run() does not touch.
outside == <<queryVars, fileVars, configVars, activityVars, reviewVars>>
vars == <<runVars, queryVars, fileVars, configVars, activityVars, reviewVars>>

-----------------------------------------------------------------------------
(* Endpoint (ocmConfig.Config) and the config file format                  *)

FieldNames == {"accessToken", "refreshToken", "url", "clientID", "clientSecret"}

EmptyConfig ==
    [accessToken |-> "", refreshToken |-> "", url |-> "",
     clientID |-> "", clientSecret |-> ""]

\* The ambient Endpoint: what the OCM_* environment describes.
EnvConfig ==
    [accessToken |-> "env-access-token", refreshToken |-> "env-refresh-token",
     url |-> "https://api.stage.openshift.com",
     clientID |-> "env-client-id", clientSecret |-> "env-client-secret"]

\* A config file is a sequence of JSON tokens.  Punctuation and bare words
\* are themselves; every other token is a quoted string.
Punct == {"{", "}", ":", ","}
BareWords == {"invalid", "json"}
IsString(t) == t \notin Punct \cup BareWords

RECURSIVE ParsePairs(_, _)
\* Members of a JSON object: string ":" string ("," string ":" string)*.
\* A key that names no field of the config is skipped, as json.Unmarshal does.
ParsePairs(toks, cfg) ==
    IF Len(toks) < 3 \/ ~IsString(toks[1]) \/ toks[2] # ":" \/ ~IsString(toks[3])
    THEN [ok |-> FALSE, cfg |-> EmptyConfig]
    ELSE LET next == IF toks[1] \in FieldNames
                     THEN [cfg EXCEPT ![toks[1]] = toks[3]]
                     ELSE cfg
         IN  IF Len(toks) = 3 THEN [ok |-> TRUE, cfg |-> next]
             ELSE IF toks[4] # "," THEN [ok |-> FALSE, cfg |-> EmptyConfig]
             ELSE ParsePairs(SubSeq(toks, 5, Len(toks)), next)

\* json.Unmarshal(data, cfg) into a zero ocmConfig.Config.
Unmarshal(data) ==
    IF Len(data) < 2 \/ data[1] # "{" \/ data[Len(data)] # "}"
    THEN [ok |-> FALSE, cfg |-> EmptyConfig]
    ELSE IF Len(data) = 2 THEN [ok |-> TRUE, cfg |-> EmptyConfig]
    ELSE ParsePairs(SubSeq(data, 2, Len(data) - 1), EmptyConfig)

ErrCantRead == "can't read config file"
ErrEmptyFile == "empty config file"
ErrCantParse == "can't parse config file"

\* Mutant: the empty-file check comes after the parse.
GetOcmConfigFromFilePath_ParseFirst(f) ==
    IF ~f.readable THEN [cfg |-> <<>>, err |-> ErrCantRead]
    ELSE IF ~Unmarshal(f.data).ok THEN [cfg |-> <<>>, err |-> ErrCantParse]
    ELSE IF Len(f.data) = 0 THEN [cfg |-> <<>>, err |-> ErrEmptyFile]
    ELSE [cfg |-> <<Unmarshal(f.data).cfg>>, err |-> ""]

\* Mutant: on a parse error the config being filled is returned with it.
GetOcmConfigFromFilePath_KeepCfg(f) ==
    IF ~f.readable THEN [cfg |-> <<>>, err |-> ErrCantRead]
    ELSE IF Len(f.data) = 0 THEN [cfg |-> <<>>, err |-> ErrEmptyFile]
    ELSE IF ~Unmarshal(f.data).ok
         THEN [cfg |-> <<Unmarshal(f.data).cfg>>, err |-> ErrCantParse]
    ELSE [cfg |-> <<Unmarshal(f.data).cfg>>, err |-> ""]

\* utils.GetOcmConfigFromFilePath: (cfg, err), cfg <<>> for nil, err "" for nil.
GetOcmConfigFromFilePath(f) ==
    IF ~f.readable THEN [cfg |-> <<>>, err |-> ErrCantRead]
    ELSE IF Len(f.data) = 0 THEN [cfg |-> <<>>, err |-> ErrEmptyFile]
    ELSE IF ~Unmarshal(f.data).ok THEN [cfg |-> <<>>, err |-> ErrCantParse]
    ELSE [cfg |-> <<Unmarshal(f.data).cfg>>, err |-> ""]

\* The files of TestGetOcmConfigFromFilePath.
ValidFile ==
    [readable |-> TRUE,
     data |-> <<"{", "accessToken", ":", "test-access-token", ",",
                "refreshToken", ":", "test-refresh-token", ",",
                "url", ":", "https://api.openshift.com", ",",
                "clientID", ":", "test-client-id", ",",
                "clientSecret", ":", "test-client-secret", "}">>]
MissingFile == [readable |-> FALSE, data |-> <<>>]
EmptyFile == [readable |-> TRUE, data |-> <<>>]
InvalidJsonFile == [readable |-> TRUE, data |-> <<"{", "invalid", "json", "}">>]
\* A partial but sufficient document (only the client id and secret).
PartialFile ==
    [readable |-> TRUE,
     data |-> <<"{", "clientID", ":", "hive-client-id", ",",
                "clientSecret", ":", "hive-client-secret", "}">>]
SampleFiles == {ValidFile, MissingFile, EmptyFile, InvalidJsonFile, PartialFile}

-----------------------------------------------------------------------------
(* testHiveLoginOptions.run                                                *)

MaxMatches == 2

ConnIds == {"ocm", "hive"}
NoConn == [opened |-> FALSE, open |-> FALSE, closes |-> 0, cfg |-> EmptyConfig]

TargetInternalID == "261kalm3uob0vegg1c7h9o7r5k9t64ji"
HiveInternalID == "hs-mc-773jpgko0"

\* Mutant: the elevation reason is left empty.
OReason_Empty == ""

\* o.reason as run() sets it.
OReason == "Testing osdctl clients with cluster admin"

HiveBPReason == "Testing hive client backplane connections"

MinimalReads == {"ClusterOperators", "Namespaces"}
\* Reads of a resource a standard client cannot see.
ElevatedReads == {"ClusterDeployment", "MonitoringPods"}

\* The nine client variants of run(), in order.  via: the connection the
\* build call is handed ("default": none, the helper logs in on its own;
\* "hiveOcmURL": none, the helper is handed o.hiveOcmURL).  reasonFrom: the
\* reason argument ("none": no argument, "empty": the literal "").
\* errChecked: whether run() tests the error of the build call.
Tests == <<
    [name |-> "k8s.New", cluster |-> "target", via |-> "default",
     admin |-> FALSE, reasonFrom |-> "none", errChecked |-> TRUE,
     reads |-> <<"ClusterOperators">>],
    [name |-> "k8s.NewWithConn", cluster |-> "hive", via |-> "hiveOCM",
     admin |-> FALSE, reasonFrom |-> "none", errChecked |-> TRUE,
     reads |-> <<"ClusterOperators">>],
    [name |-> "k8s.NewAsBackplaneClusterAdminWithConn", cluster |-> "hive",
     via |-> "hiveOCM", admin |-> TRUE, reasonFrom |-> "o.reason",
     errChecked |-> TRUE, reads |-> <<"ClusterDeployment">>],
    [name |-> "GetKubeConfigAndClient", cluster |-> "target", via |-> "default",
     admin |-> FALSE, reasonFrom |-> "none", errChecked |-> FALSE,
     reads |-> <<"ClusterOperators", "Namespaces">>],
    [name |-> "GetKubeConfigAndClientWithConn", cluster |-> "target",
     via |-> "ocmClient", admin |-> FALSE, reasonFrom |-> "none",
     errChecked |-> FALSE, reads |-> <<"ClusterOperators", "Namespaces">>],
    [name |-> "GetKubeConfigAndClient", cluster |-> "target", via |-> "default",
     admin |-> FALSE, reasonFrom |-> "o.reason", errChecked |-> FALSE,
     reads |-> <<"ClusterOperators", "MonitoringPods">>],
    [name |-> "GetKubeConfigAndClientWithConn", cluster |-> "target",
     via |-> "ocmClient", admin |-> FALSE, reasonFrom |-> "o.reason",
     errChecked |-> FALSE, reads |-> <<"ClusterOperators", "MonitoringPods">>],
    [name |-> "GetHiveBPForCluster", cluster |-> "hive", via |-> "hiveOcmURL",
     admin |-> FALSE, reasonFrom |-> "empty", errChecked |-> TRUE,
     reads |-> <<"ClusterOperators">>],
    [name |-> "GetHiveBPForCluster", cluster |-> "hive", via |-> "hiveOcmURL",
     admin |-> FALSE, reasonFrom |-> "literal", errChecked |-> TRUE,
     reads |-> <<"ClusterOperators", "ClusterDeployment">>] >>

NumTests == Len(Tests)

\* The reason argument of the i-th build call.
ReasonArg(i) ==
    CASE Tests[i].reasonFrom = "o.reason" -> reason
      [] Tests[i].reasonFrom = "literal" -> HiveBPReason
      [] OTHER -> ""

\* Mutant: every GetHiveBPForCluster client is an elevated one.
Tier_ByHelper(i, r) ==
    IF Tests[i].admin \/ Tests[i].name = "GetHiveBPForCluster" \/ Len(r) > 0
    THEN "Elevated" ELSE "Standard"

\* The tier of the client the i-th build call yields for reason r: the
\* cluster-admin constructor always elevates, the others only for a reason.
Tier(i, r) ==
    IF Tests[i].admin \/ Len(r) > 0 THEN "Elevated" ELSE "Standard"

\* The OCM URL the i-th build call logs in through.
LoginURL(i) ==
    CASE Tests[i].via = "ocmClient" -> conns[ocmClient].cfg.url
      [] Tests[i].via = "hiveOCM" -> conns[hiveOCM].cfg.url
      [] Tests[i].via = "hiveOcmURL" /\ Len(hiveOcmURL) > 0 -> hiveOcmURL
      [] OTHER -> EnvConfig.url

ConnArg(i) ==
    CASE Tests[i].via = "ocmClient" -> ocmClient
      [] Tests[i].via = "hiveOCM" -> hiveOCM
      [] OTHER -> ""

\* Mutant: clients are pooled by connection; a call whose connection already
\* has a client is handed that client.
NewClient_Pooled(i, ok) ==
    LET pool == {k \in 1..Len(clients) :
                    ~clients[k].isNil /\ clients[k].conn = ConnArg(i)}
    IN  IF ok /\ pool # {}
        THEN clients[CHOOSE k \in pool : \A l \in pool : k <= l]
        ELSE [test |-> i, isNil |-> ~ok, id |-> Len(clients) + 1,
              tier |-> Tier(i, ReasonArg(i)), reason |-> ReasonArg(i),
              cluster |-> IF Tests[i].cluster = "target" THEN cluster ELSE hiveCluster,
              conn |-> ConnArg(i), url |-> LoginURL(i)]

\* What a build call returns: a client bound to the cluster and connection
\* it was given, or, when the build failed, the nil client.
\* id names the object the call allocated.
NewClient(i, ok) ==
    [test |-> i, isNil |-> ~ok, id |-> Len(clients) + 1,
     tier |-> Tier(i, ReasonArg(i)), reason |-> ReasonArg(i),
     cluster |-> IF Tests[i].cluster = "target" THEN cluster ELSE hiveCluster,
     conn |-> ConnArg(i), url |-> LoginURL(i)]

RECURSIVE Count(_, _)
Count(seq, x) ==
    IF seq = <<>> THEN 0
    ELSE (IF Head(seq) = x THEN 1 ELSE 0) + Count(Tail(seq), x)

\* The deferred Close calls, run when run() returns or panics.
RunDeferred(c, d) ==
    [id \in ConnIds |->
        IF Count(d, id) > 0
        THEN [c[id] EXCEPT !.open = FALSE, !.closes = @ + Count(d, id)]
        ELSE c[id]]

\* The nil error.
NoErr == [context |-> "", cause |-> ""]

\* "return err": the error of a helper handed on as it came.
RawErr(cause) == [context |-> "", cause |-> cause]

\* The text run() wraps around the error of the i-th build call (lines 221,
\* 235, 249), "" where the error is handed on as it came.
ErrContext(i) ==
    CASE i = 1 -> "failed to login to cluster"
      [] i \in {2, 3} -> "failed to login to hive cluster"
      [] OTHER -> ""

\* The error run() returns when the i-th build call fails.
BuildErr(i) == [context |-> ErrContext(i), cause |-> Tests[i].name]

\* The error a failed validation read returns: the List error of the client,
\* or getClusterDeployment's own error when no deployment matches.
ReadErr(kind, outcome) ==
    RawErr(IF outcome = "not found" THEN "clusterDeployment for cluster not found"
           ELSE "List " \o kind)

\* An entry of the call log: the call and the client variant in progress.
Call(name) == [call |-> name, test |-> test]

\* run() ends: with nil, with the error of a step, or with a panic.
Return(c, how, step) ==
    /\ pc' = "Done"
    /\ result' = how
    /\ failedAt' = step
    /\ conns' = RunDeferred(c, deferred)

\* Mutant: the flag no longer wins over the config key.
ResolveURL_ViperFirst(flag, viper) ==
    IF Len(viper) > 0 THEN viper ELSE flag

\* o.hiveOcmURL after the first lines of run().
ResolveURL(flag, viper) ==
    IF Len(flag) > 0 THEN flag ELSE viper

InitRun ==
    /\ pc = "ResolveHiveOcmURL"
    /\ flagURL \in {"", "production"}
    /\ viperURL \in {"", "https://api.integration.openshift.com"}
    /\ hiveOcmConfigPath \in {"", "/path/to/hive-ocm.json"}
    /\ hiveFile \in (IF hiveOcmConfigPath = "" THEN {MissingFile} ELSE SampleFiles)
    /\ matches \in 0..MaxMatches
    /\ hiveOcmURL = flagURL
    /\ reason = ""
    /\ hiveOCMCfg = <<>>
    /\ ocmClient = ""
    /\ hiveOCM = ""
    /\ conns = [id \in ConnIds |-> NoConn]
    /\ deferred = <<>>
    /\ cluster = ""
    /\ hiveCluster = ""
    /\ test = 0
    /\ readIdx = 0
    /\ clients = <<>>
    /\ reads = <<>>
    /\ passed = {}
    /\ result = "running"
    /\ failedAt = ""
    /\ retErr = NoErr
    /\ steps = <<>>
    /\ cfgBuilt = <<>>

\* Lines 121-132.
ResolveHiveOcmURL ==
    /\ pc = "ResolveHiveOcmURL"
    /\ hiveOcmURL' = ResolveURL(hiveOcmURL, viperURL)
    /\ reason' = OReason
    /\ pc' = "CreateConnection"
    /\ UNCHANGED <<inputs, outside, hiveOCMCfg, ocmClient, hiveOCM, conns, deferred,
                   cluster, hiveCluster, test, readIdx, clients, reads, passed,
                   result, failedAt, retErr, steps, cfgBuilt>>

\* Mutant: ocmClient.Close() without the defer, the connection is closed as
\* soon as it is built.
CreateConnection_CloseNow ==
    /\ pc = "CreateConnection"
    /\ steps' = Append(steps, Call("CreateConnection"))
    /\ \E ok \in BOOLEAN :
        IF ok
        THEN /\ ocmClient' = "ocm"
             /\ conns' = [conns EXCEPT !["ocm"] =
                    [opened |-> TRUE, open |-> FALSE, closes |-> 1, cfg |-> EnvConfig]]
             /\ pc' = "GetClusterAnyStatus"
             /\ UNCHANGED <<deferred, result, failedAt, retErr>>
        ELSE /\ Return(conns, "error", "CreateConnection")
             /\ retErr' = RawErr("CreateConnection")
             /\ UNCHANGED <<ocmClient, deferred>>
    /\ UNCHANGED <<inputs, outside, cfgBuilt, hiveOcmURL, reason, hiveOCMCfg, hiveOCM, cluster,
                   hiveCluster, test, readIdx, clients, reads, passed>>

\* Lines 137-142: utils.CreateConnection and defer ocmClient.Close().
CreateConnection ==
    /\ pc = "CreateConnection"
    /\ steps' = Append(steps, Call("CreateConnection"))
    /\ \E ok \in BOOLEAN :
        IF ok
        THEN /\ ocmClient' = "ocm"
             /\ conns' = [conns EXCEPT !["ocm"] =
                    [opened |-> TRUE, open |-> TRUE, closes |-> 0, cfg |-> EnvConfig]]
             /\ deferred' = Append(deferred, "ocm")
             /\ pc' = "GetClusterAnyStatus"
             /\ UNCHANGED <<result, failedAt, retErr>>
        ELSE /\ Return(conns, "error", "CreateConnection")
             /\ retErr' = RawErr("CreateConnection")
             /\ UNCHANGED <<ocmClient, deferred>>
    /\ UNCHANGED <<inputs, outside, cfgBuilt, hiveOcmURL, reason, hiveOCMCfg, hiveOCM, cluster,
                   hiveCluster, test, readIdx, clients, reads, passed>>

\* Mutant: of several matching clusters the first is taken.
GetClusterAnyStatusResult_First(n, ok) ==
    IF ~ok THEN "query failed"
    ELSE IF n = 0 THEN "cluster not found"
    ELSE ""

\* utils.GetClusterAnyStatus: one query; an error unless exactly one cluster
\* matches (or when the query itself fails).
GetClusterAnyStatusResult(n, ok) ==
    IF ~ok THEN "query failed"
    ELSE IF n = 0 THEN "cluster not found"
    ELSE IF n > 1 THEN "ambiguous cluster"
    ELSE ""

\* Mutant: a failed lookup is tried a second time before run() gives up.
GetClusterAnyStatus_RetryOnce ==
    /\ pc = "GetClusterAnyStatus"
    /\ steps' = Append(steps, Call("GetClusterAnyStatus"))
    /\ \E ok \in BOOLEAN :
        IF GetClusterAnyStatusResult(matches, ok) = ""
        THEN /\ cluster' = TargetInternalID
             /\ pc' = "HiveConfigFromFile"
             /\ UNCHANGED <<conns, result, failedAt, retErr>>
        ELSE IF \A i \in 1..Len(steps) : steps[i].call # "GetClusterAnyStatus"
        THEN UNCHANGED <<pc, cluster, conns, result, failedAt, retErr>>
        ELSE /\ Return(conns, "error", "GetClusterAnyStatus")
             /\ retErr' = RawErr(GetClusterAnyStatusResult(matches, ok))
             /\ UNCHANGED cluster
    /\ UNCHANGED <<inputs, outside, cfgBuilt, hiveOcmURL, reason, hiveOCMCfg, ocmClient, hiveOCM,
                   deferred, hiveCluster, test, readIdx, clients, reads, passed>>

\* Lines 143-155.
GetClusterAnyStatus ==
    /\ pc = "GetClusterAnyStatus"
    /\ steps' = Append(steps, Call("GetClusterAnyStatus"))
    /\ \E ok \in BOOLEAN :
        IF GetClusterAnyStatusResult(matches, ok) = ""
        THEN /\ cluster' = TargetInternalID
             /\ pc' = "HiveConfigFromFile"
             /\ UNCHANGED <<conns, result, failedAt, retErr>>
        ELSE /\ Return(conns, "error", "GetClusterAnyStatus")
             /\ retErr' = RawErr(GetClusterAnyStatusResult(matches, ok))
             /\ UNCHANGED cluster
    /\ UNCHANGED <<inputs, outside, cfgBuilt, hiveOcmURL, reason, hiveOCMCfg, ocmClient, hiveOCM,
                   deferred, hiveCluster, test, readIdx, clients, reads, passed>>

\* Lines 157-165: the config of the file at o.hiveOcmConfigPath, if one is set.
HiveConfigFromFile ==
    /\ pc = "HiveConfigFromFile"
    /\ steps' = IF Len(hiveOcmConfigPath) > 0
                THEN Append(steps, Call("GetOcmConfigFromFilePath")) ELSE steps
    /\ IF Len(hiveOcmConfigPath) > 0
       THEN LET r == GetOcmConfigFromFilePath(hiveFile)
            IN  IF r.err # ""
                THEN /\ Return(conns, "error", "GetOcmConfigFromFilePath")
                     /\ retErr' = RawErr(r.err)
                     /\ UNCHANGED <<hiveOCMCfg, cfgBuilt>>
                ELSE /\ hiveOCMCfg' = r.cfg
                     /\ cfgBuilt' = r.cfg
                     /\ pc' = "HiveURLOverride"
                     /\ UNCHANGED <<conns, result, failedAt, retErr>>
       ELSE /\ pc' = "HiveURLOverride"
            /\ UNCHANGED <<hiveOCMCfg, cfgBuilt, conns, result, failedAt, retErr>>
    /\ UNCHANGED <<inputs, outside, hiveOcmURL, reason, ocmClient, hiveOCM, deferred,
                   cluster, hiveCluster, test, readIdx, clients, reads, passed>>

\* Mutant: the override always starts from the environment's config.
ApplyURLOverride_FromEnv(cfg, url) ==
    IF Len(url) > 0 THEN <<[EnvConfig EXCEPT !.url = url]>> ELSE cfg

\* Mutant: the override yields a fresh config that holds the URL alone.
ApplyURLOverride_Fresh(cfg, url) ==
    IF Len(url) > 0 THEN <<[EmptyConfig EXCEPT !.url = url]>> ELSE cfg

\* Lines 168-178 once a config is at hand: hiveOCMCfg.URL = o.hiveOcmURL on
\* the config already built from the file, else on the environment's.
ApplyURLOverride(cfg, url) ==
    IF Len(url) > 0
    THEN <<[(IF cfg = <<>> THEN EnvConfig ELSE cfg[1]) EXCEPT !.url = url]>>
    ELSE cfg

\* Mutant: the environment's config is the object the target connection was
\* built from, so replacing its URL replaces the connection's.
HiveURLOverride_SharedEnv ==
    /\ pc = "HiveURLOverride"
    /\ steps' = IF Len(hiveOcmURL) > 0 /\ hiveOCMCfg = <<>>
                THEN Append(steps, Call("GetOCMConfigFromEnv")) ELSE steps
    /\ \E envOk \in BOOLEAN :
        IF Len(hiveOcmURL) > 0 /\ hiveOCMCfg = <<>> /\ ~envOk
        THEN /\ Return(conns, "error", "GetOCMConfigFromEnv")
             /\ retErr' = RawErr("GetOCMConfigFromEnv")
             /\ UNCHANGED <<hiveOCMCfg, cfgBuilt>>
        ELSE /\ hiveOCMCfg' = ApplyURLOverride(hiveOCMCfg, hiveOcmURL)
             /\ cfgBuilt' = IF Len(hiveOcmURL) > 0 /\ hiveOCMCfg = <<>>
                            THEN <<EnvConfig>> ELSE cfgBuilt
             /\ conns' = IF Len(hiveOcmURL) > 0 /\ hiveOCMCfg = <<>>
                         THEN [conns EXCEPT !["ocm"].cfg.url = hiveOcmURL]
                         ELSE conns
             /\ pc' = "HiveConnect"
             /\ UNCHANGED <<result, failedAt, retErr>>
    /\ UNCHANGED <<inputs, outside, hiveOcmURL, reason, ocmClient, hiveOCM, deferred,
                   cluster, hiveCluster, test, readIdx, clients, reads, passed>>

\* Lines 167-178.
HiveURLOverride ==
    /\ pc = "HiveURLOverride"
    /\ steps' = IF Len(hiveOcmURL) > 0 /\ hiveOCMCfg = <<>>
                THEN Append(steps, Call("GetOCMConfigFromEnv")) ELSE steps
    /\ \E envOk \in BOOLEAN :
        IF Len(hiveOcmURL) > 0 /\ hiveOCMCfg = <<>> /\ ~envOk
        THEN /\ Return(conns, "error", "GetOCMConfigFromEnv")
             /\ retErr' = RawErr("GetOCMConfigFromEnv")
             /\ UNCHANGED <<hiveOCMCfg, cfgBuilt>>
        ELSE /\ hiveOCMCfg' = ApplyURLOverride(hiveOCMCfg, hiveOcmURL)
             /\ cfgBuilt' = IF Len(hiveOcmURL) > 0 /\ hiveOCMCfg = <<>>
                            THEN <<EnvConfig>> ELSE cfgBuilt
             /\ pc' = "HiveConnect"
             /\ UNCHANGED <<conns, result, failedAt, retErr>>
    /\ UNCHANGED <<inputs, outside, hiveOcmURL, reason, ocmClient, hiveOCM, deferred,
                   cluster, hiveCluster, test, readIdx, clients, reads, passed>>

\* Mutant: no nil check, a nil config is read as the zero config.
GetOCMSdkConnBuilderFromConfig_NoNilCheck(cfg) ==
    [builder |-> IF cfg = <<>> THEN <<EmptyConfig>> ELSE cfg, err |-> ""]

\* utils.GetOCMSdkConnBuilderFromConfig: an error for a nil config, else a
\* builder carrying the config.
GetOCMSdkConnBuilderFromConfig(cfg) ==
    IF cfg = <<>> THEN [builder |-> <<>>, err |-> "nil ocm config"]
    ELSE [builder |-> cfg, err |-> ""]

\* Mutant: a Build that fails at the token exchange leaves the connection it
\* had begun open behind it.
HiveConnect_HalfOpen ==
    /\ pc = "HiveConnect"
    /\ steps' = IF hiveOCMCfg = <<>> THEN steps
                ELSE IF GetOCMSdkConnBuilderFromConfig(hiveOCMCfg).err # ""
                THEN Append(steps, Call("GetOCMSdkConnBuilderFromConfig"))
                ELSE steps \o <<Call("GetOCMSdkConnBuilderFromConfig"),
                                Call("hiveBuilder.Build")>>
    /\ IF hiveOCMCfg # <<>>
       THEN LET b == GetOCMSdkConnBuilderFromConfig(hiveOCMCfg)
            IN  \E ok \in BOOLEAN :
                    IF b.err # "" \/ ~ok
                    THEN /\ Return(IF b.err # "" THEN conns
                                    ELSE [conns EXCEPT !["hive"] =
                                            [opened |-> TRUE, open |-> TRUE,
                                             closes |-> 0, cfg |-> b.builder[1]]],
                                   "error",
                                   IF b.err # "" THEN "GetOCMSdkConnBuilderFromConfig"
                                   ELSE "hiveBuilder.Build")
                         /\ retErr' = RawErr(IF b.err # "" THEN b.err
                                             ELSE "hiveBuilder.Build")
                         /\ UNCHANGED hiveOCM
                    ELSE /\ hiveOCM' = "hive"
                         /\ conns' = [conns EXCEPT !["hive"] =
                                [opened |-> TRUE, open |-> TRUE, closes |-> 0,
                                 cfg |-> b.builder[1]]]
                         /\ pc' = "HiveReuse"
                         /\ UNCHANGED <<result, failedAt, retErr>>
       ELSE /\ pc' = "HiveReuse"
            /\ UNCHANGED <<hiveOCM, conns, result, failedAt, retErr>>
    /\ UNCHANGED <<inputs, outside, cfgBuilt, hiveOcmURL, reason, hiveOCMCfg, ocmClient, deferred,
                   cluster, hiveCluster, test, readIdx, clients, reads, passed>>

\* Lines 180-195: a connection of its own for hive, built from hiveOCMCfg.
HiveConnect ==
    /\ pc = "HiveConnect"
    /\ steps' = IF hiveOCMCfg = <<>> THEN steps
                ELSE IF GetOCMSdkConnBuilderFromConfig(hiveOCMCfg).err # ""
                THEN Append(steps, Call("GetOCMSdkConnBuilderFromConfig"))
                ELSE steps \o <<Call("GetOCMSdkConnBuilderFromConfig"),
                                Call("hiveBuilder.Build")>>
    /\ IF hiveOCMCfg # <<>>
       THEN LET b == GetOCMSdkConnBuilderFromConfig(hiveOCMCfg)
            IN  \E ok \in BOOLEAN :
                    IF b.err # "" \/ ~ok
                    THEN /\ Return(conns, "error",
                                   IF b.err # "" THEN "GetOCMSdkConnBuilderFromConfig"
                                   ELSE "hiveBuilder.Build")
                         /\ retErr' = RawErr(IF b.err # "" THEN b.err
                                             ELSE "hiveBuilder.Build")
                         /\ UNCHANGED hiveOCM
                    ELSE /\ hiveOCM' = "hive"
                         /\ conns' = [conns EXCEPT !["hive"] =
                                [opened |-> TRUE, open |-> TRUE, closes |-> 0,
                                 cfg |-> b.builder[1]]]
                         /\ pc' = "HiveReuse"
                         /\ UNCHANGED <<result, failedAt, retErr>>
       ELSE /\ pc' = "HiveReuse"
            /\ UNCHANGED <<hiveOCM, conns, result, failedAt, retErr>>
    /\ UNCHANGED <<inputs, outside, cfgBuilt, hiveOcmURL, reason, hiveOCMCfg, ocmClient, deferred,
                   cluster, hiveCluster, test, readIdx, clients, reads, passed>>

\* Mutant: the hive connection gets a deferred Close of its own, also when
\* it is the target's connection.
HiveReuse_DeferClose ==
    /\ pc = "HiveReuse"
    /\ steps' = IF hiveOCM = "" THEN Append(steps, Call("GetHiveCluster")) ELSE steps
    /\ hiveOCM' = IF hiveOCM = "" THEN ocmClient ELSE hiveOCM
    /\ \E ok \in BOOLEAN :
        IF ok \/ hiveOCM # ""
        THEN /\ pc' = "GetHiveClusterWithConn"
             /\ deferred' = Append(deferred, hiveOCM')
             /\ UNCHANGED <<conns, result, failedAt, retErr>>
        ELSE /\ Return(conns, "error", "GetHiveCluster")
             /\ retErr' = RawErr("GetHiveCluster")
             /\ UNCHANGED deferred
    /\ UNCHANGED <<inputs, outside, cfgBuilt, hiveOcmURL, reason, hiveOCMCfg, ocmClient,
                   cluster, hiveCluster, test, readIdx, clients, reads, passed>>

\* Lines 197-206: with no hive connection of its own, hive shares the target's
\* connection, and the legacy utils.GetHiveCluster is exercised.
HiveReuse ==
    /\ pc = "HiveReuse"
    /\ steps' = IF hiveOCM = "" THEN Append(steps, Call("GetHiveCluster")) ELSE steps
    /\ IF hiveOCM = ""
       THEN /\ hiveOCM' = ocmClient
            /\ \E ok \in BOOLEAN :
                IF ok
                THEN /\ pc' = "GetHiveClusterWithConn"
                     /\ UNCHANGED <<conns, result, failedAt, retErr>>
                ELSE /\ Return(conns, "error", "GetHiveCluster")
                     /\ retErr' = RawErr("GetHiveCluster")
       ELSE /\ pc' = "GetHiveClusterWithConn"
            /\ UNCHANGED <<hiveOCM, conns, result, failedAt, retErr>>
    /\ UNCHANGED <<inputs, outside, cfgBuilt, hiveOcmURL, reason, hiveOCMCfg, ocmClient, deferred,
                   cluster, hiveCluster, test, readIdx, clients, reads, passed>>

\* Mutant: the error of the hive lookup is printed and the run goes on.
GetHiveClusterWithConn_IgnoreErr ==
    /\ pc = "GetHiveClusterWithConn"
    /\ steps' = Append(steps, Call("GetHiveClusterWithConn"))
    /\ \E ok \in BOOLEAN :
        /\ hiveCluster' = IF ok THEN HiveInternalID ELSE hiveCluster
        /\ pc' = "Build"
        /\ test' = 1
        /\ UNCHANGED <<conns, result, failedAt, retErr>>
    /\ UNCHANGED <<inputs, outside, cfgBuilt, hiveOcmURL, reason, hiveOCMCfg, ocmClient, hiveOCM,
                   deferred, cluster, readIdx, clients, reads, passed>>

\* Lines 208-216.
GetHiveClusterWithConn ==
    /\ pc = "GetHiveClusterWithConn"
    /\ steps' = Append(steps, Call("GetHiveClusterWithConn"))
    /\ \E ok \in BOOLEAN :
        IF ok
        THEN /\ hiveCluster' = HiveInternalID
             /\ pc' = "Build"
             /\ test' = 1
             /\ UNCHANGED <<conns, result, failedAt, retErr>>
        ELSE /\ Return(conns, "error", "GetHiveClusterWithConn")
             /\ retErr' = RawErr("GetHiveClusterWithConn")
             /\ UNCHANGED <<hiveCluster, test>>
    /\ UNCHANGED <<inputs, outside, cfgBuilt, hiveOcmURL, reason, hiveOCMCfg, ocmClient, hiveOCM,
                   deferred, cluster, readIdx, clients, reads, passed>>

\* Whether run() tests the error of the i-th build call before going on.
ErrChecked(i) == Tests[i].errChecked

\* The build call of the client variant in progress (lines 219, 233, 247,
\* 262, 278, 294, 314, 332, 345).  A failed build whose error run() does not
\* test leaves the nil client in kubeCli and the run goes on to its reads.
BuildClient ==
    /\ pc = "Build"
    /\ steps' = Append(steps, Call(Tests[test].name))
    /\ \E ok \in BOOLEAN :
        IF ~ok /\ ErrChecked(test)
        THEN /\ Return(conns, "error", Tests[test].name)
             /\ retErr' = BuildErr(test)
             /\ UNCHANGED <<clients, readIdx>>
        ELSE /\ clients' = Append(clients, NewClient(test, ok))
             /\ readIdx' = 0
             /\ pc' = "Read"
             /\ UNCHANGED <<conns, result, failedAt, retErr>>
    /\ UNCHANGED <<inputs, outside, cfgBuilt, hiveOcmURL, reason, hiveOCMCfg, ocmClient, hiveOCM,
                   deferred, cluster, hiveCluster, test, reads, passed>>

\* What a validation read can come to: dumpClusterOperators and the clientset
\* lists fail when the List call fails; getClusterDeployment also fails when
\* no ClusterDeployment's namespace contains the cluster ID.
ReadOutcomes(kind) ==
    IF kind = "ClusterDeployment" THEN {"ok", "error", "not found"}
    ELSE {"ok", "error"}

\* Mutant: the error of a validation read is dropped.
ReadFails_Never(outcome) == FALSE

\* Whether run() returns on the outcome of a validation read.
ReadFails(outcome) == outcome # "ok"

\* The next validation read of the client variant in progress; after the last
\* read of a variant its PASS line, after the last variant return nil.
\* A read through the nil client is a nil dereference: run() panics.
ReadClient ==
    /\ pc = "Read"
    /\ steps' = Append(steps, Call(Tests[test].reads[readIdx + 1]))
    /\ LET c == clients[Len(clients)]
           kind == Tests[test].reads[readIdx + 1]
           last == readIdx + 1 = Len(Tests[test].reads)
       IN  IF c.isNil
           THEN /\ reads' = Append(reads, [test |-> test, kind |-> kind,
                                          outcome |-> "panic"])
                /\ Return(conns, "panic", kind)
                /\ retErr' = NoErr
                /\ UNCHANGED <<readIdx, passed, test>>
           ELSE \E outcome \in ReadOutcomes(kind) :
                /\ reads' = Append(reads, [test |-> test, kind |-> kind,
                                           outcome |-> outcome])
                /\ IF ReadFails(outcome)
                   THEN /\ Return(conns, "error", kind)
                        /\ retErr' = ReadErr(kind, outcome)
                        /\ UNCHANGED <<readIdx, passed, test>>
                   ELSE /\ readIdx' = readIdx + 1
                        /\ passed' = IF last THEN passed \cup {test} ELSE passed
                        /\ IF last /\ test = NumTests
                           THEN /\ Return(conns, "nil", "")
                                /\ retErr' = NoErr
                                /\ UNCHANGED test
                           ELSE /\ pc' = IF last THEN "Build" ELSE "Read"
                                /\ test' = IF last THEN test + 1 ELSE test
                                /\ UNCHANGED <<conns, result, failedAt, retErr>>
    /\ UNCHANGED <<inputs, outside, cfgBuilt, hiveOcmURL, reason, hiveOCMCfg, ocmClient, hiveOCM,
                   deferred, cluster, hiveCluster, clients>>

Next ==
    \/ ResolveHiveOcmURL
    \/ CreateConnection
    \/ GetClusterAnyStatus
    \/ HiveConfigFromFile
    \/ HiveURLOverride
    \/ HiveConnect
    \/ HiveReuse
    \/ GetHiveClusterWithConn
    \/ BuildClient
    \/ ReadClient

IdleQuery == ident = <<>> /\ edits = 0 /\ query = <<>>
IdleFile == file = MissingFile /\ loaded = <<>> /\ built = <<>>

IdleConfig == viperKey = [s \in {"explicit", "flag", "env", "file", "default"} |-> <<>>]
              /\ shown = <<>>
              /\ configFileUsed = FALSE
              /\ setDone = <<>>

IdleActivity ==
    /\ activityIn = [username |-> "", days |-> 0, startDate |-> <<>>, endDate |-> <<>>]
    /\ activityOut = <<>>

IdleReview ==
    /\ reviewIn = [githubToken |-> "", apiKey |-> "", prURL |-> "",
                   autoPost |-> FALSE, skipPost |-> FALSE]
    /\ reviewRun = [pc |-> "Done", fetched |-> 0, generated |-> FALSE,
                    prompt |-> <<>>, posts |-> 0, err |-> ""]

Init == InitRun /\ IdleQuery /\ IdleFile /\ IdleConfig /\ IdleActivity /\ IdleReview
Spec == Init /\ [][Next]_vars

-----------------------------------------------------------------------------
(* GenerateQuery: the OCM search query for a cluster identifier            *)

LowerChars ==
    {"a", "b", "c", "d", "e", "f", "g", "h", "i", "j", "k", "l", "m",
     "n", "o", "p", "q", "r", "s", "t", "u", "v", "w", "x", "y", "z"}
UpperChars ==
    {"A", "B", "C", "D", "E", "F", "G", "H", "I", "J", "K", "L", "M",
     "N", "O", "P", "Q", "R", "S", "T", "U", "V", "W", "X", "Y", "Z"}
DigitChars == {"0", "1", "2", "3", "4", "5", "6", "7", "8", "9"}
HexChars == DigitChars \cup {"a", "b", "c", "d", "e", "f"} \cup {"A", "B", "C", "D", "E", "F"}

\* The identifiers of TestGenerateQuery, one character per element.
\* "261kalm3uob0vegg1c7h9o7r5k9t64ji"
InternalIDExample ==
    <<
      "2", "6", "1", "k", "a", "l", "m", "3", "u", "o", "b", "0",
      "v", "e", "g", "g", "1", "c", "7", "h", "9", "o", "7", "r",
      "5", "k", "9", "t", "6", "4", "j", "i" >>
\* "261kalm3uob0vegg1c7h9o7r5k9t64jI"
UpperCaseExample ==
    <<
      "2", "6", "1", "k", "a", "l", "m", "3", "u", "o", "b", "0",
      "v", "e", "g", "g", "1", "c", "7", "h", "9", "o", "7", "r",
      "5", "k", "9", "t", "6", "4", "j", "I" >>
\* "261kalm3uob0vegg1c7h9o7r5k9t64j"
TooShortExample ==
    <<
      "2", "6", "1", "k", "a", "l", "m", "3", "u", "o", "b", "0",
      "v", "e", "g", "g", "1", "c", "7", "h", "9", "o", "7", "r",
      "5", "k", "9", "t", "6", "4", "j" >>
\* "261kalm3uob0vegg1c7h9o7r5k9t64jix"
TooLongExample ==
    <<
      "2", "6", "1", "k", "a", "l", "m", "3", "u", "o", "b", "0",
      "v", "e", "g", "g", "1", "c", "7", "h", "9", "o", "7", "r",
      "5", "k", "9", "t", "6", "4", "j", "i", "x" >>
\* "c1f562af-fb22-42c5-aa07-6848e1eeee9c"
ExternalIDExample ==
    <<
      "c", "1", "f", "5", "6", "2", "a", "f", "-", "f", "b", "2",
      "2", "-", "4", "2", "c", "5", "-", "a", "a", "0", "7", "-",
      "6", "8", "4", "8", "e", "1", "e", "e", "e", "e", "9", "c" >>
\* "hs-mc-773jpgko0"
DisplayNameExample ==
    <<
      "h", "s", "-", "m", "c", "-", "7", "7", "3", "j", "p", "g",
      "k", "o", "0" >>
TestIdents ==
    {InternalIDExample, UpperCaseExample, TooShortExample, TooLongExample,
     ExternalIDExample, DisplayNameExample}

\* The characters an edit can put into an identifier: a lower-case hex
\* letter, a lower-case letter that is no hex digit, a digit, an upper-case
\* letter that is no hex digit, a hyphen.
EditChars == {"a", "z", "7", "G", "-"}

InternalIDLen == 32
\* The groups of hex digits of a UUID, separated by hyphens.
UUIDGroups == <<8, 4, 4, 4, 12>>

RECURSIVE AllIn(_, _)
AllIn(seq, S) ==
    seq = <<>> \/ (Head(seq) \in S /\ AllIn(Tail(seq), S))

\* Mutant: the length is only bounded from below.
IsInternalID_AtLeast(id) ==
    Len(id) >= InternalIDLen /\ AllIn(id, LowerChars \cup DigitChars)

\* Exactly 32 lower-case alphanumeric characters.
IsInternalID(id) ==
    Len(id) = InternalIDLen /\ AllIn(id, LowerChars \cup DigitChars)

RECURSIVE MatchGroups(_, _)
\* seq is the groups' hex digits, each group but the last followed by "-".
MatchGroups(seq, groups) ==
    LET n == Head(groups)
    IN  /\ Len(seq) >= n
        /\ AllIn(SubSeq(seq, 1, n), HexChars)
        /\ IF Len(groups) = 1 THEN Len(seq) = n
           ELSE /\ Len(seq) > n
                /\ seq[n + 1] = "-"
                /\ MatchGroups(SubSeq(seq, n + 2, Len(seq)), Tail(groups))

\* The RFC4122 shape: 8-4-4-4-12 hex digits.
IsExternalID(id) == MatchGroups(id, UUIDGroups)

\* The query text: its fixed parts and, between them, the identifier.
FormatQuery(field, op, id) ==
    <<"(" \o field \o " " \o op \o " '">> \o id \o <<"')">>

\* utils.GenerateQuery: the first shape that matches decides.
GenerateQuery(id) ==
    IF IsInternalID(id) THEN FormatQuery("id", "=", id)
    ELSE IF IsExternalID(id) THEN FormatQuery("external_id", "=", id)
    ELSE FormatQuery("display_name", "like", id)

MaxEdits == 1

InitQuery ==
    /\ ident \in TestIdents
    /\ edits = 0
    /\ query = <<>>

\* The caller changes one character of the identifier.
EditChar ==
    /\ edits < MaxEdits
    /\ \E i \in DOMAIN ident, c \in EditChars :
        /\ ident[i] # c
        /\ ident' = [ident EXCEPT ![i] = c]
    /\ edits' = edits + 1
    /\ query' = <<>>
    /\ UNCHANGED <<runVars, fileVars, configVars, activityVars, reviewVars>>

\* The caller adds a character at the end.
AppendChar ==
    /\ edits < MaxEdits
    /\ \E c \in EditChars : ident' = Append(ident, c)
    /\ edits' = edits + 1
    /\ query' = <<>>
    /\ UNCHANGED <<runVars, fileVars, configVars, activityVars, reviewVars>>

\* The caller drops the last character.
DropChar ==
    /\ edits < MaxEdits
    /\ ident # <<>>
    /\ ident' = SubSeq(ident, 1, Len(ident) - 1)
    /\ edits' = edits + 1
    /\ query' = <<>>
    /\ UNCHANGED <<runVars, fileVars, configVars, activityVars, reviewVars>>

\* GenerateQuery(clusterIdentifier).
CallGenerateQuery ==
    /\ query = <<>>
    /\ query' = GenerateQuery(ident)
    /\ UNCHANGED <<ident, edits, runVars, fileVars, configVars, activityVars, reviewVars>>

\* The run() state while run() is not under study.
IdleRun ==
    /\ pc = "Done"
    /\ flagURL = ""
    /\ viperURL = ""
    /\ hiveOcmConfigPath = ""
    /\ hiveFile = MissingFile
    /\ matches = 0
    /\ hiveOcmURL = ""
    /\ reason = ""
    /\ hiveOCMCfg = <<>>
    /\ ocmClient = ""
    /\ hiveOCM = ""
    /\ conns = [id \in ConnIds |-> NoConn]
    /\ deferred = <<>>
    /\ cluster = ""
    /\ hiveCluster = ""
    /\ test = 0
    /\ readIdx = 0
    /\ clients = <<>>
    /\ reads = <<>>
    /\ passed = {}
    /\ result = "running"
    /\ failedAt = ""
    /\ retErr = NoErr
    /\ steps = <<>>
    /\ cfgBuilt = <<>>

NextQuery ==
    \/ EditChar
    \/ AppendChar
    \/ DropChar
    \/ CallGenerateQuery

QueryInit == InitQuery /\ IdleRun /\ IdleFile /\ IdleConfig /\ IdleActivity /\ IdleReview
SpecQuery == QueryInit /\ [][NextQuery]_vars

-----------------------------------------------------------------------------
(* GetOcmConfigFromFilePath: loading a config file                         *)

MaxFileLen == 5

\* The tokens a writer can add to a file.
FileTokens == {"{", "}", ":", ",", "url", "https://api.openshift.com", "invalid"}

InitFile ==
    /\ file \in SampleFiles \cup {[readable |-> FALSE, data |-> <<"{", "}">>]}
    /\ loaded = <<>>
    /\ built = <<>>

\* Something is written at the end of the file.
WriteToken ==
    /\ Len(file.data) < MaxFileLen
    /\ \E t \in FileTokens : file' = [file EXCEPT !.data = Append(@, t)]
    /\ loaded' = <<>>
    /\ built' = <<>>
    /\ UNCHANGED <<runVars, queryVars, configVars, activityVars, reviewVars>>

\* GetOcmConfigFromFilePath(filePath).
LoadFile ==
    /\ loaded = <<>>
    /\ loaded' = <<GetOcmConfigFromFilePath(file)>>
    /\ UNCHANGED <<file, built, runVars, queryVars, configVars, activityVars, reviewVars>>

\* GetOCMSdkConnBuilderFromConfig(cfg), called as its test calls it: with
\* nil, or with what loading the file returned (nil when loading failed).
CallGetOCMSdkConnBuilderFromConfig ==
    /\ loaded # <<>>
    /\ built = <<>>
    /\ \E cfg \in {<<>>, loaded[1].cfg} :
          built' = <<[cfg |-> cfg, res |-> GetOCMSdkConnBuilderFromConfig(cfg)]>>
    /\ UNCHANGED <<file, loaded, runVars, queryVars, configVars, activityVars, reviewVars>>

NextFile ==
    \/ WriteToken
    \/ LoadFile
    \/ CallGetOCMSdkConnBuilderFromConfig

FileInit == InitFile /\ IdleRun /\ IdleQuery /\ IdleConfig /\ IdleActivity /\ IdleReview
SpecFile == FileInit /\ [][NextFile]_vars

-----------------------------------------------------------------------------
(* osdctl config --key: the value of a key and the source it is said to     *)
(* come from                                                               *)

\* The places a key can be set in, highest priority first, as the comment in
\* getConfigSource lists them.
Sources == <<"explicit", "flag", "env", "file", "default">>

\* A value with its Go type; text is what fmt.Sprintf("%v", v) prints.
StrA == [type |-> "string", text |-> "a"]
Str5 == [type |-> "string", text |-> "5"]
Int5 == [type |-> "int", text |-> "5"]
Values == {StrA, Str5, Int5}

\* os.LookupEnv yields strings only.
EnvValues == {StrA, Str5}

Sprintf(v) == v.text

\* viper.IsSet(key).
IsSet(v) == \E i \in 1..Len(Sources) : v[Sources[i]] # <<>>

\* viper.Get(key): the value of the first source that has the key; only used
\* where IsSet holds or a comparison follows, nil is <<>>.
Get(v) ==
    IF ~IsSet(v) THEN <<>>
    ELSE LET i == CHOOSE i \in 1..Len(Sources) :
                    /\ v[Sources[i]] # <<>>
                    /\ \A j \in 1..(i - 1) : v[Sources[j]] = <<>>
         IN  v[Sources[i]]

\* compareValues(v1, v2) on two values either of which may be nil: the two
\* are printed with %v and the texts compared; nil prints as "<nil>".
compareValues(v1, v2) ==
    LET s1 == IF v1 = <<>> THEN "<nil>" ELSE Sprintf(v1[1])
        s2 == IF v2 = <<>> THEN "<nil>" ELSE Sprintf(v2[1])
    IN  s1 = s2

\* Mutant: the config file is looked at before the environment.
getConfigSource_FileFirst(v) ==
    LET viperValue == Get(v)
        envExists == v.env # <<>>
        configFileExists == v.file # <<>>
    IN  IF configFileExists /\ compareValues(v.file, viperValue) THEN "config file"
        ELSE IF envExists /\ compareValues(v.env, viperValue) THEN "environment"
        ELSE IF configFileExists THEN "other (flags/explicit set/default)"
        ELSE IF envExists THEN "other (flags/explicit set/default)"
        ELSE "default/runtime set"

\* getConfigSource(key).
getConfigSource(v) ==
    LET viperValue == Get(v)
        envExists == v.env # <<>>
        configFileExists == v.file # <<>>
    IN  IF envExists /\ compareValues(v.env, viperValue) THEN "environment"
        ELSE IF configFileExists /\ compareValues(v.file, viperValue) THEN "config file"
        ELSE IF configFileExists THEN "other (flags/explicit set/default)"
        ELSE IF envExists THEN "other (flags/explicit set/default)"
        ELSE "default/runtime set"

ErrKeyNotFound == "configuration key not found"

\* Mutant: a key counts as found only when the config file has it.
getConfigValue_FileOnly(v) ==
    IF v.file = <<>>
    THEN [err |-> ErrKeyNotFound, value |-> <<>>, source |-> ""]
    ELSE [err |-> "", value |-> Get(v), source |-> getConfigSource(v)]

\* getConfigValue(key): the error returned, and the value and the source
\* printed (<<>> and "" when nothing is printed).
getConfigValue(v) ==
    IF ~IsSet(v)
    THEN [err |-> ErrKeyNotFound, value |-> <<>>, source |-> ""]
    ELSE [err |-> "", value |-> Get(v), source |-> getConfigSource(v)]

\* The key is set, or not, in each source before the command runs; the
\* environment holds strings.
InitConfig ==
    /\ viperKey \in [{Sources[i] : i \in 1..Len(Sources)} ->
                       {<<>>} \cup {<<x>> : x \in Values}]
    /\ viperKey.env \in {<<>>} \cup {<<x>> : x \in EnvValues}
    /\ configFileUsed \in BOOLEAN
    /\ viperKey.file # <<>> => configFileUsed
    /\ shown = <<>>
    /\ setDone = <<>>

\* osdctl config --key <key>; a process runs one command.
CallGetConfigValue ==
    /\ shown = <<>>
    /\ setDone = <<>>
    /\ shown' = <<getConfigValue(viperKey)>>
    /\ UNCHANGED <<viperKey, configFileUsed, setDone, runVars, queryVars, fileVars, activityVars, reviewVars>>

ErrNoConfigFile == "no config file in use"
ErrWriteConfig == "error writing config to file"

\* setConfigValue(key, value): the error returned and what the key holds in
\* each source afterwards.  viper.Set comes before viper.WriteConfig, which
\* writes the effective settings, the new value among them, to the file.
setConfigValue(v, used, value, writeOk) ==
    IF ~used THEN [err |-> ErrNoConfigFile, viper |-> v]
    ELSE LET set == [v EXCEPT !.explicit = <<value>>]
         IN  IF ~writeOk THEN [err |-> ErrWriteConfig, viper |-> set]
             ELSE [err |-> "", viper |-> [set EXCEPT !.file = <<value>>]]

\* osdctl config --key <key> --value <value>; the flag's value is a string.
CallSetConfigValue ==
    /\ shown = <<>>
    /\ setDone = <<>>
    /\ \E value \in EnvValues, writeOk \in BOOLEAN :
          LET r == setConfigValue(viperKey, configFileUsed, value, writeOk)
          IN  /\ viperKey' = r.viper
              /\ setDone' = <<[err |-> r.err, value |-> value,
                               before |-> Get(viperKey)]>>
    /\ UNCHANGED <<shown, configFileUsed, runVars, queryVars, fileVars, activityVars, reviewVars>>

NextConfig ==
    \/ CallGetConfigValue
    \/ CallSetConfigValue

ConfigInit == InitConfig /\ IdleRun /\ IdleQuery /\ IdleFile /\ IdleActivity /\ IdleReview
SpecConfig == ConfigInit /\ [][NextConfig]_vars

-----------------------------------------------------------------------------
(* osdctl jira user-activity: QueryUserActivity                            *)

\* Dates as typed on the command line, one character per element.
Jan01 == <<"2", "0", "2", "5", "-", "0", "1", "-", "0", "1">>
Jan31 == <<"2", "0", "2", "5", "-", "0", "1", "-", "3", "1">>
Feb30 == <<"2", "0", "2", "5", "-", "0", "2", "-", "3", "0">>
Slashed == <<"2", "0", "2", "5", "/", "0", "1", "/", "3", "1">>
DateArgs == {<<>>, Jan01, Jan31, Feb30, Slashed}

\* The values of --days tried: negative, not given, given.
DaysArgs == {-1, 0, 7}

DefaultDays == 30

DigitVal(c) ==
    CHOOSE n \in 0..9 : <<"0", "1", "2", "3", "4", "5", "6", "7", "8", "9">>[n + 1] = c

DaysIn(y, m) ==
    IF m = 2
    THEN (IF y % 4 = 0 /\ (y % 100 # 0 \/ y % 400 = 0) THEN 29 ELSE 28)
    ELSE IF m \in {4, 6, 9, 11} THEN 30 ELSE 31

\* time.Parse("2006-01-02", s): four digits, two digits and two digits
\* between dashes, naming a day that exists.
ParseDate(s) ==
    IF /\ Len(s) = 10
       /\ s[5] = "-" /\ s[8] = "-"
       /\ \A i \in {1, 2, 3, 4, 6, 7, 9, 10} : s[i] \in DigitChars
    THEN LET y == 1000 * DigitVal(s[1]) + 100 * DigitVal(s[2])
                    + 10 * DigitVal(s[3]) + DigitVal(s[4])
             m == 10 * DigitVal(s[6]) + DigitVal(s[7])
             d == 10 * DigitVal(s[9]) + DigitVal(s[10])
         IN  IF m \in 1..12 /\ d \in 1..DaysIn(y, m)
             THEN [ok |-> TRUE, y |-> y, m |-> m, d |-> d]
             ELSE [ok |-> FALSE, y |-> 0, m |-> 0, d |-> 0]
    ELSE [ok |-> FALSE, y |-> 0, m |-> 0, d |-> 0]

\* t.After(u) on two parsed dates.
After(t, u) ==
    \/ t.y > u.y
    \/ t.y = u.y /\ t.m > u.m
    \/ t.y = u.y /\ t.m = u.m /\ t.d > u.d

\* Mutant: the order of the two dates is not looked at.
validateDateRange_NoOrderCheck(o) ==
    IF o.startDate = <<>> THEN "start-date is required when using date range"
    ELSE IF o.endDate = <<>> THEN "end-date is required when using date range"
    ELSE IF ~ParseDate(o.startDate).ok THEN "invalid start-date format"
    ELSE IF ~ParseDate(o.endDate).ok THEN "invalid end-date format"
    ELSE ""

\* validateDateRange: the error, "" for nil.
validateDateRange(o) ==
    IF o.startDate = <<>> THEN "start-date is required when using date range"
    ELSE IF o.endDate = <<>> THEN "end-date is required when using date range"
    ELSE IF ~ParseDate(o.startDate).ok THEN "invalid start-date format"
    ELSE IF ~ParseDate(o.endDate).ok THEN "invalid end-date format"
    ELSE IF After(ParseDate(o.startDate), ParseDate(o.endDate))
         THEN "start-date cannot be after end-date"
    ELSE ""

ErrDaysAndDates == "cannot use --days together with --start-date/--end-date"

\* QueryUserActivity: the error returned ("" for nil), the number of
\* SearchIssues calls made, o.days as the call leaves it, and the window the
\* query asks for.
QueryUserActivity(o, clientOk, searchOk) ==
    LET useDays == o.days > 0
        useDateRange == o.startDate # <<>> \/ o.endDate # <<>>
        days == IF ~useDays /\ ~useDateRange THEN DefaultDays ELSE o.days
        none == [err |-> "", searches |-> 0, days |-> o.days, window |-> <<>>]
    IN  IF o.username = "" THEN [none EXCEPT !.err = "username is required"]
        ELSE IF useDays /\ useDateRange THEN [none EXCEPT !.err = ErrDaysAndDates]
        ELSE IF ~clientOk
             THEN [none EXCEPT !.err = "failed to create JIRA client", !.days = days]
        ELSE IF useDateRange /\ validateDateRange(o) # ""
             THEN [none EXCEPT !.err = validateDateRange(o), !.days = days]
        ELSE [err |-> IF searchOk THEN "" ELSE "failed to search for issues",
              searches |-> 1,
              days |-> days,
              window |-> IF useDateRange
                         THEN <<"range", ParseDate(o.startDate), ParseDate(o.endDate)>>
                         ELSE <<"days", days>>]

InitActivity ==
    /\ activityIn \in [username : {"", "john.doe"}, days : DaysArgs,
                       startDate : DateArgs, endDate : DateArgs]
    /\ activityOut = <<>>

\* osdctl jira user-activity.
CallQueryUserActivity ==
    /\ activityOut = <<>>
    /\ \E clientOk, searchOk \in BOOLEAN :
          activityOut' = <<QueryUserActivity(activityIn, clientOk, searchOk)>>
    /\ UNCHANGED <<activityIn, runVars, queryVars, fileVars, configVars, reviewVars>>

NextActivity ==
    \/ CallQueryUserActivity

ActivityInit ==
    InitActivity /\ IdleRun /\ IdleQuery /\ IdleFile /\ IdleConfig /\ IdleReview
SpecActivity == ActivityInit /\ [][NextActivity]_vars

-----------------------------------------------------------------------------
(* osdctl github review-pr: ReviewPullRequest                              *)

\* Pull request URLs, split at "/".
GoodURL == <<"https:", "", "github.com", "openshift", "osdctl", "pull", "794">>
BareURL == <<"github.com", "owner", "repo", "pull", "123">>
NoNumberURL == <<"https:", "", "github.com", "owner", "repo", "pull", "">>
IssueURL == <<"https:", "", "github.com", "owner", "repo", "issues", "123">>
URLArgs == {GoodURL, BareURL, NoNumberURL, IssueURL}

PRNumbers == {"794", "123"}

\* parsePRURL: whether github\.com/([^/]+)/([^/]+)/pull/(\d+) matches.
parsePRURL(url) ==
    \E i \in 1..Len(url) :
        /\ i + 4 <= Len(url)
        /\ url[i] = "github.com"
        /\ url[i + 1] # "" /\ url[i + 2] # ""
        /\ url[i + 3] = "pull"
        /\ url[i + 4] \in PRNumbers

\* The three calls that fetch the pull request, in order.
FetchCalls == <<"PullRequests.Get", "PullRequests.ListFiles", "PullRequests.GetRaw">>
FetchErrs == <<"failed to fetch PR", "failed to fetch PR files", "failed to fetch PR diff">>

\* What prompt.Run() can return: the text typed and the error ("" for nil).
PromptOutcomes ==
    {[result |-> "yes", err |-> ""], [result |-> "Yes", err |-> ""],
     [result |-> "y", err |-> ""], [result |-> "no", err |-> ""],
     [result |-> "", err |-> "promptui.ErrAbort"],
     [result |-> "", err |-> "promptui.ErrInterrupt"]}

\* strings.ToLower on the texts a prompt can return.
ToLower(str) == IF str = "Yes" THEN "yes" ELSE str

InitReview ==
    /\ reviewIn \in [githubToken : {"", "github-token"}, apiKey : {"", "api-key"},
                     prURL : URLArgs, autoPost : BOOLEAN, skipPost : BOOLEAN]
    /\ reviewRun = [pc |-> "Validate", fetched |-> 0, generated |-> FALSE,
                    prompt |-> <<>>, posts |-> 0, err |-> ""]

\* ReviewPullRequest returns err.
ReviewReturn(err) == reviewRun' = [reviewRun EXCEPT !.pc = "Done", !.err = err]

ReviewFrame == UNCHANGED <<reviewIn, runVars, queryVars, fileVars, configVars, activityVars>>

\* Lines 108-139: the two environment variables and the URL.
ReviewValidate ==
    /\ reviewRun.pc = "Validate"
    /\ IF reviewIn.githubToken = ""
       THEN ReviewReturn("GITHUB_TOKEN environment variable is required")
       ELSE IF reviewIn.apiKey = ""
       THEN ReviewReturn("OPENAI_API_KEY environment variable is required")
       ELSE IF ~parsePRURL(reviewIn.prURL)
       THEN ReviewReturn("invalid GitHub PR URL format")
       ELSE reviewRun' = [reviewRun EXCEPT !.pc = "Fetch"]
    /\ ReviewFrame

\* Lines 149-165: the next of the three fetches.
ReviewFetch ==
    /\ reviewRun.pc = "Fetch"
    /\ \E ok \in BOOLEAN :
        IF ~ok
        THEN ReviewReturn(FetchErrs[reviewRun.fetched + 1])
        ELSE reviewRun' = [reviewRun EXCEPT
                !.fetched = @ + 1,
                !.pc = IF reviewRun.fetched + 1 = Len(FetchCalls)
                       THEN "Generate" ELSE "Fetch"]
    /\ ReviewFrame

\* Lines 169-174: reviewer.ReviewPR.
ReviewGenerate ==
    /\ reviewRun.pc = "Generate"
    /\ \E ok \in BOOLEAN :
        IF ~ok THEN ReviewReturn("failed to generate review")
        ELSE reviewRun' = [reviewRun EXCEPT !.generated = TRUE, !.pc = "Decide"]
    /\ ReviewFrame

\* Mutant: --auto-post is looked at before --skip-post.
ReviewDecide_AutoFirst ==
    /\ reviewRun.pc = "Decide"
    /\ IF reviewIn.autoPost THEN reviewRun' = [reviewRun EXCEPT !.pc = "Post"]
       ELSE IF reviewIn.skipPost THEN ReviewReturn("")
       ELSE \E p \in PromptOutcomes :
              IF p.err \notin {"", "promptui.ErrAbort"}
              THEN reviewRun' = [reviewRun EXCEPT !.pc = "Done", !.prompt = <<p>>,
                                                  !.err = "prompt failed"]
              ELSE IF p.err = "" /\ ToLower(p.result) = "yes"
              THEN reviewRun' = [reviewRun EXCEPT !.pc = "Post", !.prompt = <<p>>]
              ELSE reviewRun' = [reviewRun EXCEPT !.pc = "Done", !.prompt = <<p>>]
    /\ ReviewFrame

\* Lines 183-204: --skip-post, --auto-post, else the prompt.
ReviewDecide ==
    /\ reviewRun.pc = "Decide"
    /\ IF reviewIn.skipPost THEN ReviewReturn("")
       ELSE IF reviewIn.autoPost THEN reviewRun' = [reviewRun EXCEPT !.pc = "Post"]
       ELSE \E p \in PromptOutcomes :
              IF p.err \notin {"", "promptui.ErrAbort"}
              THEN reviewRun' = [reviewRun EXCEPT !.pc = "Done", !.prompt = <<p>>,
                                                  !.err = "prompt failed"]
              ELSE IF p.err = "" /\ ToLower(p.result) = "yes"
              THEN reviewRun' = [reviewRun EXCEPT !.pc = "Post", !.prompt = <<p>>]
              ELSE reviewRun' = [reviewRun EXCEPT !.pc = "Done", !.prompt = <<p>>]
    /\ ReviewFrame

\* Lines 206-212: postReviewComment; the comment may have been created even
\* when the call reports an error.
ReviewPost ==
    /\ reviewRun.pc = "Post"
    /\ \E ok \in BOOLEAN :
        reviewRun' = [reviewRun EXCEPT
            !.pc = "Done", !.posts = @ + 1,
            !.err = IF ok THEN "" ELSE "failed to post review"]
    /\ ReviewFrame

NextReview ==
    \/ ReviewValidate
    \/ ReviewFetch
    \/ ReviewGenerate
    \/ ReviewDecide
    \/ ReviewPost

ReviewInit ==
    InitReview /\ IdleRun /\ IdleQuery /\ IdleFile /\ IdleConfig /\ IdleActivity
SpecReview == ReviewInit /\ [][NextReview]_vars

-----------------------------------------------------------------------------
(* Properties of run()                                                     *)

\* C1: when run() has returned, every connection that was opened (the
\* target's and a separate one opened for hive) has been closed exactly once.
C1_EveryConnectionClosedOnce ==
    pc = "Done" =>
        \A id \in ConnIds : conns[id].opened => conns[id].closes = 1

\* The config the file at o.hiveOcmConfigPath parses to.
FileCfg == GetOcmConfigFromFilePath(hiveFile).cfg[1]

C2_AllThreePresent ==
    /\ Len(hiveOcmConfigPath) > 0
    /\ pc # "ResolveHiveOcmURL" /\ Len(hiveOcmURL) > 0
    /\ ocmClient # "" /\ conns[ocmClient].open

\* C2 as stated: with a config file path, a URL override and the target
\* connection all present, the hive connection is opened against exactly the
\* Endpoint parsed from the file, its URL included.
C2_FileEndpointUsedUnaltered ==
    C2_AllThreePresent /\ conns["hive"].opened => conns["hive"].cfg = FileCfg

\* C2 as amended: with a config file path set, the hive connection is a
\* connection of its own (never the target's), opened against the file's
\* Endpoint with only the URL replaced by the override when one is set: the
\* tokens, client id and client secret are the file's, the URL is the
\* override's, and the file's own URL is used only without an override.
C2_FileEndpointWithOverriddenURL ==
    Len(hiveOcmConfigPath) > 0 /\ conns["hive"].opened =>
        /\ hiveOCM = "hive" /\ hiveOCM # ocmClient
        /\ \A f \in FieldNames \ {"url"} : conns["hive"].cfg[f] = FileCfg[f]
        /\ conns["hive"].cfg.url =
              IF Len(hiveOcmURL) > 0 THEN hiveOcmURL ELSE FileCfg.url

\* C2 witness: all three inputs present, the hive connection open, and its
\* URL not the file's.
C2_Witness ==
    /\ C2_AllThreePresent
    /\ conns["hive"].open
    /\ hiveFile = ValidFile
    /\ conns["hive"].cfg.url # FileCfg.url
    /\ conns["hive"].cfg.clientID = "test-client-id"

NoHiveOverride == flagURL = "" /\ viperURL = "" /\ hiveOcmConfigPath = ""

\* C3: with neither a config file path nor a URL override, hive uses the very
\* connection of the target, unchanged; run() opens no other connection; and
\* that one connection is closed exactly once when run() returns, never twice.
C3_ReuseTargetConnection ==
    NoHiveOverride =>
        /\ ~conns["hive"].opened
        /\ hiveOCM \in {"", ocmClient}
        /\ pc \in {"GetHiveClusterWithConn", "Build", "Read"} =>
              hiveOCM = "ocm" /\ ocmClient = "ocm"
        /\ conns["ocm"].opened => conns["ocm"].cfg = EnvConfig
        /\ conns["ocm"].closes <= 1
        /\ pc = "Done" /\ conns["ocm"].opened =>
              conns["ocm"].closes = 1 /\ ~conns["ocm"].open

\* C3 witness: a full run on the shared connection.
C3_Witness ==
    /\ NoHiveOverride
    /\ result = "nil"
    /\ hiveOCM = ocmClient /\ ocmClient = "ocm"
    /\ conns["ocm"].closes = 1

\* C4: a failed step ends the run: no validation read is issued for a client
\* variant whose build call failed.
C4_NoReadAfterFailedBuild ==
    \A i \in DOMAIN clients : clients[i].isNil =>
        \A j \in DOMAIN reads : reads[j].test # clients[i].test

\* C5: run() returns nil only if every one of the nine client variants was
\* built and every one of its validation reads succeeded; no read failed.
C5_SuccessOnlyIfAllValidated ==
    result = "nil" =>
        /\ \A i \in 1..NumTests :
            /\ \E c \in DOMAIN clients :
                  clients[c].test = i /\ ~clients[c].isNil
            /\ \A k \in DOMAIN Tests[i].reads : \E j \in DOMAIN reads :
                  reads[j] = [test |-> i, kind |-> Tests[i].reads[k],
                              outcome |-> "ok"]
            /\ i \in passed
        /\ \A c \in DOMAIN clients : ~clients[c].isNil
        /\ \A j \in DOMAIN reads : reads[j].outcome = "ok"

\* C5 witness: "All tests Passed".
C5_Witness == pc = "Done" /\ result = "nil" /\ passed = 1..NumTests

EmptyReasonTest(i) == Tests[i].reasonFrom = "empty"

C7_ElevatedHasReason ==
    \A i \in DOMAIN clients : clients[i].tier = "Elevated" =>
        /\ Len(clients[i].reason) > 0
        /\ clients[i].reason = ReasonArg(clients[i].test)
        /\ Tests[clients[i].test].reasonFrom \in {"o.reason", "literal"}

\* C7 witness: all four Elevated clients of a full run.
C7_Witness ==
    /\ result = "nil"
    /\ Cardinality({i \in DOMAIN clients :
            clients[i].tier = "Elevated" /\ ~clients[i].isNil}) = 4

\* C8: an Elevated client is reported PASS only after a successful minimal
\* read and a successful read that needs elevated privilege.
C8_ElevatedPassAfterBothReads ==
    \A i \in DOMAIN clients :
        clients[i].tier = "Elevated" /\ clients[i].test \in passed =>
            /\ \E j \in DOMAIN reads :
                  /\ reads[j].test = clients[i].test
                  /\ reads[j].kind \in MinimalReads
                  /\ reads[j].outcome = "ok"
            /\ \E j \in DOMAIN reads :
                  /\ reads[j].test = clients[i].test
                  /\ reads[j].kind \in ElevatedReads
                  /\ reads[j].outcome = "ok"

-----------------------------------------------------------------------------
(* Properties of GenerateQuery and GetOcmConfigFromFilePath                *)

\* C9: every identifier gets exactly one query, decided by its shape: 32
\* lower-case alphanumerics give "(id = 'X')", the 8-4-4-4-12 hex shape gives
\* "(external_id = 'X')", anything else, the near-misses of 31 or 33
\* alphanumerics or with an upper-case letter included, gives
\* "(display_name like 'X')".
C9_ClassificationByShape ==
    query # <<>> =>
        LET alnum == \A i \in DOMAIN ident :
                        ident[i] \in LowerChars \cup DigitChars
            isInternal == Len(ident) = 32 /\ alnum
            isExternal ==
                /\ Len(ident) = 36
                /\ \A i \in DOMAIN ident :
                      IF i \in {9, 14, 19, 24} THEN ident[i] = "-"
                      ELSE ident[i] \in HexChars
            byID == <<"(id = '">> \o ident \o <<"')">>
            byExternalID == <<"(external_id = '">> \o ident \o <<"')">>
            byName == <<"(display_name like '">> \o ident \o <<"')">>
        IN  /\ query = (IF isInternal THEN byID
                        ELSE IF isExternal THEN byExternalID ELSE byName)
            /\ Cardinality({q \in {byID, byExternalID, byName} : q = query}) = 1
            /\ Len(ident) \in {31, 33} => query = byName
            /\ (\E i \in DOMAIN ident : ident[i] \in UpperChars) /\ ~isExternal
                  => query = byName

\* C9 witness: a 32-character identifier with one upper-case letter was
\* classified as a display name.
C9_Witness ==
    /\ query # <<>>
    /\ edits = 1
    /\ Len(ident) = 32
    /\ \E i \in DOMAIN ident : ident[i] = "G"
    /\ query[1] = "(display_name like '"

\* A JSON object of string members, stated position by position.
WellFormedDoc(data) ==
    /\ Len(data) >= 2
    /\ data[1] = "{" /\ data[Len(data)] = "}"
    /\ LET n == Len(data) - 2
       IN  /\ n = 0 \/ n % 4 = 3
           /\ \A k \in 1..n :
                 CASE k % 4 = 2 -> data[k + 1] = ":"
                   [] k % 4 = 0 -> data[k + 1] = ","
                   [] OTHER -> IsString(data[k + 1])

\* C10: each condition of the file has its own error, tested in the order
\* unreadable, empty, malformed; a well-formed document gives a config and
\* no error.
C10_FileErrorsInOrder ==
    loaded # <<>> =>
        LET r == loaded[1]
        IN  /\ ~file.readable => r.err = "can't read config file"
            /\ file.readable /\ file.data = <<>> => r.err = "empty config file"
            /\ file.readable /\ file.data # <<>> /\ ~WellFormedDoc(file.data)
                  => r.err = "can't parse config file"
            /\ file.readable /\ WellFormedDoc(file.data)
                  => r.err = "" /\ r.cfg # <<>>

\* C10 witness: "{invalid json}" was loaded and rejected as unparsable.
C10_Witness ==
    /\ loaded # <<>>
    /\ file = InvalidJsonFile
    /\ loaded[1].err = ErrCantParse

\* C11: whenever loading the file fails (unreadable, empty, malformed) no
\* config comes back with the error: an error and a config are never
\* returned together, and one of the two always is.
C11_NoConfigWithError ==
    loaded # <<>> =>
        /\ loaded[1].err # "" <=> loaded[1].cfg = <<>>
        /\ loaded[1].err \in {ErrCantRead, ErrEmptyFile, ErrCantParse} =>
              loaded[1].cfg = <<>>

\* C11 witness: a document cut short after a complete "url" member was
\* loaded; it came back as a parse error with no config.
C11_Witness ==
    /\ loaded # <<>>
    /\ file.readable
    /\ file.data = <<"{", "url", ":", "https://api.openshift.com">>
    /\ loaded[1] = [cfg |-> <<>>, err |-> ErrCantParse]

\* C12: building a connection builder from a config returns a builder and no
\* error when the config is valid, and an error and no builder when the
\* config is nil; a builder and an error never come back together.
C12_BuilderOrError ==
    built # <<>> =>
        LET cfg == built[1].cfg
            res == built[1].res
        IN  /\ cfg = <<>> => res.err # "" /\ res.builder = <<>>
            /\ cfg # <<>> => res.err = "" /\ res.builder = cfg
            /\ res.err # "" <=> res.builder = <<>>

\* C12 witness: the builder was asked for with the nil config left by a
\* failed load, and answered with an error and no builder.
C12_Witness ==
    /\ loaded # <<>>
    /\ loaded[1].err = ErrEmptyFile
    /\ built # <<>>
    /\ built[1].cfg = <<>>
    /\ built[1].res.err # ""
    /\ built[1].res.builder = <<>>

\* The config the override of run() starts from: the one loaded from the file
\* at o.hiveOcmConfigPath when a path is given, else the environment's.
OverrideBase == IF Len(hiveOcmConfigPath) > 0 THEN FileCfg ELSE EnvConfig

\* C13: the config that results from applying a URL override differs from the
\* config it was applied to in the URL only: every credential and the token
\* endpoint are those of the base config, and the URL is the override.
C13_OverrideChangesOnlyURL ==
    (pc \notin {"ResolveHiveOcmURL", "CreateConnection", "GetClusterAnyStatus",
                "HiveConfigFromFile", "HiveURLOverride"}
       /\ Len(hiveOcmURL) > 0 /\ hiveOCMCfg # <<>>) =>
        /\ hiveOCMCfg[1].url = hiveOcmURL
        /\ \A f \in FieldNames \ {"url"} : hiveOCMCfg[1][f] = OverrideBase[f]

\* C13 witness: the file's config carries credentials and a URL of its own,
\* the override was applied, and only the URL differs from the file's.
C13_Witness ==
    /\ pc = "HiveConnect"
    /\ hiveFile = ValidFile
    /\ Len(hiveOcmURL) > 0
    /\ hiveOCMCfg # <<>>
    /\ hiveOCMCfg[1].url # FileCfg.url
    /\ hiveOCMCfg[1].clientID = FileCfg.clientID
    /\ FileCfg.clientID # ""

\* Whether the URL replacement of line 177 has been executed.
URLReplaced ==
    /\ Len(hiveOcmURL) > 0
    /\ hiveOCMCfg # <<>>
    /\ pc \notin {"ResolveHiveOcmURL", "CreateConnection", "GetClusterAnyStatus",
                  "HiveConfigFromFile", "HiveURLOverride"}

-----------------------------------------------------------------------------
(* Properties of osdctl config --key                                       *)

\* The highest-priority source the key is set in.
HighestSource(v) ==
    Sources[CHOOSE i \in 1..Len(Sources) :
                /\ v[Sources[i]] # <<>>
                /\ \A j \in 1..(i - 1) : v[Sources[j]] = <<>>]

\* The sources a label of getConfigSource can stand for, read generously.
SourcesNamedBy(label) ==
    CASE label = "environment" -> {"env"}
      [] label = "config file" -> {"file"}
      [] label = "other (flags/explicit set/default)" -> {"explicit", "flag", "default"}
      [] label = "default/runtime set" -> {"explicit", "flag", "default"}
      [] OTHER -> {}

\* C15: the source reported for a key is the highest-priority source the key
\* is set in (explicit set and flags before the environment, before the config
\* file, before defaults), whatever values the lower sources hold; a value set
\* explicitly that equals the environment variable's is not reported as
\* coming from the environment.
C15_ReportsHighestSetSource ==
    (shown # <<>> /\ shown[1].err = "") =>
        HighestSource(viperKey) \in SourcesNamedBy(shown[1].source)

\* C16: getConfigValue returns the "not found" error exactly when the key is
\* set in no source, and then shows no value and no source; otherwise it
\* shows the effective value and a source.
C16_NotFoundIffUnset ==
    shown # <<>> =>
        LET unset == \A i \in 1..Len(Sources) : viperKey[Sources[i]] = <<>>
        IN  /\ shown[1].err = ErrKeyNotFound <=> unset
            /\ unset => shown[1].value = <<>> /\ shown[1].source = ""
            /\ ~unset => /\ shown[1].err = ""
                         /\ shown[1].value = <<viperKey[HighestSource(viperKey)][1]>>
                         /\ shown[1].source # ""

\* C16 witness: the key was asked for while set nowhere, and the answer was
\* the error alone.
C16_Witness ==
    /\ shown # <<>>
    /\ \A i \in 1..Len(Sources) : viperKey[Sources[i]] = <<>>
    /\ shown[1] = [err |-> ErrKeyNotFound, value |-> <<>>, source |-> ""]

\* C17: when the environment variable and the config file hold values that
\* print the same, and the effective value prints the same too, the source
\* shown is the environment, never the config file.
C17_TieGoesToEnvironment ==
    (/\ shown # <<>> /\ shown[1].err = ""
     /\ viperKey.env # <<>> /\ viperKey.file # <<>>
     /\ Sprintf(viperKey.env[1]) = Sprintf(viperKey.file[1])
     /\ Sprintf(viperKey.env[1]) = Sprintf(shown[1].value[1])) =>
        shown[1].source = "environment"

\* C17 witness: the file holds the number 5, the environment the string "5",
\* nothing is set above them, and the source shown is the environment.
C17_Witness ==
    /\ shown # <<>>
    /\ viperKey.explicit = <<>> /\ viperKey.flag = <<>>
    /\ viperKey.env = <<Str5>>
    /\ viperKey.file = <<Int5>>
    /\ shown[1].value = <<Str5>>
    /\ shown[1].source = "environment"

-----------------------------------------------------------------------------
(* Properties of run(): order of steps and errors                          *)

\* The calls of run() before the client tests, in program order.
SetupCalls ==
    <<"CreateConnection", "GetClusterAnyStatus", "GetOcmConfigFromFilePath",
      "GetOCMConfigFromEnv", "GetOCMSdkConnBuilderFromConfig",
      "hiveBuilder.Build", "GetHiveCluster", "GetHiveClusterWithConn">>

\* The calls of the i-th client test: its build call, then its reads.
TestCalls(i) ==
    <<[call |-> Tests[i].name, test |-> i]>> \o
    [k \in 1..Len(Tests[i].reads) |-> [call |-> Tests[i].reads[k], test |-> i]]

RECURSIVE TestCallsFrom(_)
TestCallsFrom(i) ==
    IF i > NumTests THEN <<>> ELSE TestCalls(i) \o TestCallsFrom(i + 1)

\* Every call run() can make, in program order.
Program ==
    [k \in 1..Len(SetupCalls) |-> [call |-> SetupCalls[k], test |-> 0]] \o
    TestCallsFrom(1)

\* The place of a call in the program, 0 for a call that is not in it.
Pos(e) ==
    IF \E k \in 1..Len(Program) : Program[k] = e
    THEN CHOOSE k \in 1..Len(Program) : Program[k] = e
    ELSE 0

HiveLookups == {"GetHiveCluster", "GetHiveClusterWithConn"}

\* C18: the calls of run() happen one after the other in the fixed program
\* order (target connection, target cluster, hive config and connection, hive
\* lookup, then each client's build and reads in turn); no client is built
\* before the target cluster and its hive cluster are both resolved; and when
\* the hive lookup fails the run ends with that error and no client built.
C18_FixedOrder ==
    /\ \A i \in 1..Len(steps) : Pos(steps[i]) > 0
    /\ \A i, j \in 1..Len(steps) : i < j => Pos(steps[i]) < Pos(steps[j])
    /\ \A i \in 1..Len(steps) :
          steps[i].test > 0 =>
              /\ cluster # "" /\ hiveCluster # ""
              /\ ocmClient # "" /\ hiveOCM # ""
              /\ \E j \in 1..(i - 1) : steps[j].call = "GetHiveClusterWithConn"
    /\ clients # <<>> => cluster # "" /\ hiveCluster # ""
    /\ failedAt \in HiveLookups =>
          /\ pc = "Done" /\ result = "error"
          /\ retErr = RawErr(failedAt)
          /\ clients = <<>> /\ hiveCluster = ""
          /\ \A i \in 1..Len(steps) : steps[i].test = 0

\* C18 witness: the target cluster was resolved, the hive lookup through the
\* chosen connection failed, and the run is over with no client built.
C18_Witness ==
    /\ pc = "Done"
    /\ failedAt = "GetHiveClusterWithConn"
    /\ cluster = TargetInternalID
    /\ hiveOCM # ""
    /\ steps[Len(steps)].call = "GetHiveClusterWithConn"
    /\ clients = <<>>

\* C19: the lookup of the target cluster yields a cluster only when exactly
\* one matches; with no match it fails as not found, with several as
\* ambiguous, and on any failure the run stops there, no hive cluster looked
\* up or resolved.
C19_ExactlyOneMatch ==
    /\ cluster # "" => matches = 1
    /\ (matches # 1 /\ \E i \in 1..Len(steps) : steps[i].call = "GetClusterAnyStatus") =>
          failedAt = "GetClusterAnyStatus"
    /\ failedAt = "GetClusterAnyStatus" =>
          /\ pc = "Done" /\ result = "error"
          /\ cluster = "" /\ hiveCluster = ""
          /\ \A i \in 1..Len(steps) : steps[i].call \notin HiveLookups
          /\ steps[Len(steps)].call = "GetClusterAnyStatus"
          /\ retErr.cause \in
                {"query failed"} \cup
                (IF matches = 0 THEN {"cluster not found"}
                 ELSE IF matches > 1 THEN {"ambiguous cluster"} ELSE {})

\* C19 witness: two clusters matched, and the run ended at the lookup with
\* the ambiguity error.
C19_Witness ==
    /\ pc = "Done"
    /\ matches = 2
    /\ failedAt = "GetClusterAnyStatus"
    /\ retErr = RawErr("ambiguous cluster")
    /\ hiveCluster = ""

\* The errors run() can return for a failure in the i-th client test.
PossibleErrs(i) ==
    (IF ErrChecked(i) THEN {BuildErr(i)} ELSE {}) \cup
    {ReadErr(Tests[i].reads[k], o) :
        k \in 1..Len(Tests[i].reads), o \in {"error", "not found"}}

\* C20: the error run() returns for a failed build or validation read tells
\* which client variant failed: it carries a tag, and no other variant's
\* failure yields the same error.
C20_ErrorNamesVariant ==
    (pc = "Done" /\ result = "error" /\ test > 0) =>
        /\ retErr.context # ""
        /\ \A i \in 1..NumTests : i # test => retErr \notin PossibleErrs(i)

-----------------------------------------------------------------------------
(* Properties of run(): clients and the connections they come from          *)

\* The cluster ID the i-th build call is to yield a client for.
BoundCluster(i) ==
    IF Tests[i].cluster = "target" THEN TargetInternalID ELSE HiveInternalID

C22_NoClientOutlivesConnection ==
    [][/\ reads' # reads =>
            LET c == clients[Len(clients)]
            IN  c.conn # "" => conns[c.conn].opened /\ conns[c.conn].open
       /\ \A id \in ConnIds :
            /\ (conns[id].open /\ ~conns'[id].open) => pc' = "Done"
            /\ (conns[id].opened /\ ~conns[id].open) =>
                  reads' = reads /\ clients' = clients]_vars

\* C22 witness: a client built from the target's connection was read through
\* to its PASS, and the connection was closed, once, when run() ended.
C22_Witness ==
    /\ pc = "Done"
    /\ 5 \in passed
    /\ clients[5].conn = "ocm"
    /\ \E j \in 1..Len(reads) : reads[j].test = 5 /\ reads[j].outcome = "ok"
    /\ conns["ocm"].opened /\ ~conns["ocm"].open
    /\ conns["ocm"].closes = 1

\* C23: nothing is retried.  No call is made twice in a run, whether it
\* succeeded or failed; the call that failed is the last call of the run; and
\* no client is read more often than its test has reads.
C23_NoRetry ==
    /\ \A i, j \in 1..Len(steps) : i # j => steps[i] # steps[j]
    /\ result = "error" =>
          /\ steps # <<>>
          /\ steps[Len(steps)].call = failedAt
          /\ \A i \in 1..(Len(steps) - 1) :
                steps[i].call # failedAt \/ steps[i].test # steps[Len(steps)].test
    /\ \A i \in 1..NumTests :
          Cardinality({j \in 1..Len(reads) : reads[j].test = i}) <= Len(Tests[i].reads)
    /\ Len(clients) <= NumTests

\* C23 witness: the lookup of the target cluster failed on its one attempt
\* and run() ended there, two calls after it began.
C23_Witness ==
    /\ pc = "Done"
    /\ result = "error"
    /\ failedAt = "GetClusterAnyStatus"
    /\ steps = <<[call |-> "CreateConnection", test |-> 0],
                 [call |-> "GetClusterAnyStatus", test |-> 0]>>

\* The context a call of run() is given: the List calls of the validation
\* reads get context.TODO(), every other call has no context argument.
ContextOf(e) ==
    IF e.call \in MinimalReads \cup ElevatedReads THEN "context.TODO()" ELSE ""

\* context.TODO() is an empty context: it is never cancelled and has no
\* deadline.
Cancellable(ctx) == ctx \notin {"", "context.TODO()"}

\* C24: one cancellation signal is handed to every network call of run():
\* every call made carries a context that can be cancelled, and it is the
\* same one for all of them.
C24_OneSignalThroughEveryCall ==
    /\ \A i \in 1..Len(steps) : Cancellable(ContextOf(steps[i]))
    /\ \A i, j \in 1..Len(steps) : ContextOf(steps[i]) = ContextOf(steps[j])

\* The steps of run() that build a connection, or a part of one.
TargetBuildSteps == {"CreateConnection"}
HiveBuildSteps ==
    {"GetOcmConfigFromFilePath", "GetOCMConfigFromEnv",
     "GetOCMSdkConnBuilderFromConfig", "hiveBuilder.Build"}

\* C25: a connection is handed to run() whole or not at all.  Every
\* connection run() holds was opened, on the config it was built from; when building one
\* fails at any sub-step (reading the config, making the builder, Build) run()
\* holds no connection from that build and nothing of it is open; and no
\* connection is ever open that run() does not hold.
C25_NoHalfOpenConnection ==
    /\ ocmClient # "" => conns[ocmClient].opened /\ conns[ocmClient].cfg = EnvConfig
    /\ hiveOCM # "" =>
          /\ conns[hiveOCM].opened
          /\ hiveOCM = "hive" => hiveOCMCfg # <<>> /\ conns["hive"].cfg = hiveOCMCfg[1]
    /\ \A id \in ConnIds : conns[id].opened => id \in {ocmClient, hiveOCM}
    /\ failedAt \in TargetBuildSteps =>
          ocmClient = "" /\ \A id \in ConnIds : conns[id] = NoConn
    /\ failedAt \in HiveBuildSteps =>
          /\ hiveOCM = "" /\ conns["hive"] = NoConn
          /\ ~conns["ocm"].open

\* C25 witness: the config for hive was loaded and its builder made, Build
\* failed, and run() ended holding no hive connection, none being open.
C25_Witness ==
    /\ pc = "Done"
    /\ failedAt = "hiveBuilder.Build"
    /\ hiveOCMCfg # <<>>
    /\ hiveOCM = ""
    /\ conns["hive"] = NoConn
    /\ conns["ocm"].opened /\ ~conns["ocm"].open

\* C26: every client built for the hive cluster in a run logs in through the
\* endpoint of the connection chosen for hive, whatever the combination of
\* config file path and URL override: the clients of NewWithConn, of
\* NewAsBackplaneClusterAdminWithConn and of both GetHiveBPForCluster calls
\* all go to the same URL.
C26_HiveClientsSameEndpoint ==
    \A k \in 1..Len(clients) :
        (Tests[clients[k].test].cluster = "hive" /\ ~clients[k].isNil) =>
            /\ clients[k].url = conns[hiveOCM].cfg.url
            /\ \A l \in 1..Len(clients) :
                  (Tests[clients[l].test].cluster = "hive" /\ ~clients[l].isNil) =>
                      clients[l].url = clients[k].url

\* C27: the hive URL override is the --hive-ocm-url flag when that is not
\* empty, whatever the config key hive_ocm_url holds; else it is the config
\* key's value; and it is empty after resolution exactly when both are empty.
C27_FlagThenConfigKey ==
    pc # "ResolveHiveOcmURL" =>
        /\ Len(flagURL) > 0 => hiveOcmURL = flagURL
        /\ Len(flagURL) = 0 => hiveOcmURL = viperURL
        /\ hiveOcmURL = "" <=> (flagURL = "" /\ viperURL = "")

\* C27 witness: flag and config key are both set, to different values, and
\* the override resolved to the flag's.
C27_Witness ==
    /\ pc = "CreateConnection"
    /\ Len(flagURL) > 0 /\ Len(viperURL) > 0
    /\ flagURL # viperURL
    /\ hiveOcmURL = flagURL

\* C28: setConfigValue changes the value of the key in memory only when it
\* returns success: after a call that returned an error (no config file in
\* use, or the file could not be written) viper holds for the key what it
\* held before the call.
C28_SetIsAllOrNothing ==
    setDone # <<>> =>
        /\ setDone[1].err # "" => Get(viperKey) = setDone[1].before
        /\ Get(viperKey) # setDone[1].before => setDone[1].err = ""

-----------------------------------------------------------------------------
(* Properties of QueryUserActivity                                         *)

\* C29: --days above zero together with a start or an end date is refused; so
\* is a date range with one bound missing, and one whose start is after its
\* end; each of these calls returns an error and makes no Jira search.  With
\* no days and no dates the search covers the last 30 days.
C29_InvalidWindowNeverSearched ==
    activityOut # <<>> =>
        LET o == activityIn
            r == activityOut[1]
            dates == o.startDate # <<>> \/ o.endDate # <<>>
        IN  /\ (o.days > 0 /\ dates) => r.err # "" /\ r.searches = 0
            /\ (o.startDate = <<>>) # (o.endDate = <<>>) => r.err # "" /\ r.searches = 0
            /\ (/\ ParseDate(o.startDate).ok /\ ParseDate(o.endDate).ok
                /\ After(ParseDate(o.startDate), ParseDate(o.endDate))) =>
                  r.err # "" /\ r.searches = 0
            /\ (o.days = 0 /\ ~dates /\ r.searches = 1) =>
                  r.days = DefaultDays /\ r.window = <<"days", DefaultDays>>
            /\ r.searches <= 1

\* C29 witness: a range from 31 January back to 1 January, no --days, was
\* refused for its order with no search made.
C29_Witness ==
    /\ activityOut # <<>>
    /\ activityIn.username # ""
    /\ activityIn.days = 0
    /\ activityIn.startDate = Jan31
    /\ activityIn.endDate = Jan01
    /\ activityOut[1].err = "start-date cannot be after end-date"
    /\ activityOut[1].searches = 0

-----------------------------------------------------------------------------
(* Properties of ReviewPullRequest                                         *)

\* C30: the review is posted at most once, and only when --skip-post is not
\* set and either --auto-post is set or the prompt was answered with a
\* confirmation; with --skip-post nothing is posted and nobody is asked, also
\* when --auto-post is set; and nothing is posted when fetching the pull
\* request or generating the review failed.
C30_PostOnlyWhenAllowed ==
    /\ reviewRun.posts <= 1
    /\ reviewRun.pc = "Post" \/ reviewRun.posts = 1 =>
          /\ ~reviewIn.skipPost
          /\ \/ reviewIn.autoPost
             \/ /\ reviewRun.prompt # <<>>
                /\ reviewRun.prompt[1].err = ""
                /\ reviewRun.prompt[1].result \in {"yes", "Yes"}
          /\ reviewRun.fetched = Len(FetchCalls)
          /\ reviewRun.generated
    /\ reviewIn.skipPost => reviewRun.posts = 0 /\ reviewRun.prompt = <<>>
    /\ reviewIn.autoPost => reviewRun.prompt = <<>>
    /\ (reviewRun.fetched < Len(FetchCalls) \/ ~reviewRun.generated) =>
          reviewRun.posts = 0

\* C30 witness: with --skip-post and --auto-post both set the review was
\* generated and the command ended without an error and without a post.
C30_Witness ==
    /\ reviewIn.skipPost /\ reviewIn.autoPost
    /\ reviewRun.pc = "Done"
    /\ reviewRun.generated
    /\ reviewRun.err = ""
    /\ reviewRun.posts = 0

====
